---- MODULE Spec2Model ----
(***************************************************************************)
(* A model of the signald transport core, src/src/tokio_socket.rs:         *)
(* the response registry (Map), Socket::write, Socket::get_response, the   *)
(* background task listen(), the per-request capacity-1 channels and the   *)
(* capacity-32 subscriber channel.                                         *)
(***************************************************************************)
EXTENDS Integers, Sequences, FiniteSets, TLC

\* ------------------------------------------------------------------ bounds
\* Number of write()/get_response() calls made on the Socket.
MaxCalls == 3
\* Number of lines an arbitrary peer puts on the inbound stream.
MaxLines == 2
\* Number of lines a protocol-following peer puts on the inbound stream.
MaxPeerLines == 4
\* Number of its lines that may sit unread in the inbound stream.
MaxWire == 1
\* Bounds of the lifecycle specification (connect, drop, end of events).
MaxLifeCalls == 2
MaxLifeLines == 2
\* Bounds of the full-queue specification: enough lines to fill the
\* subscriber channel, overflow it by one event and follow with a response.
MaxQueueCalls == 2
MaxQueueLines == 34

\* ------------------------------------------------------- program constants
\* mpsc::channel(1): the capacity of a request's response channel.
SlotCap == 1
\* mpsc::channel(32): the capacity of the subscriber channel.
EventQueueCap == 32

\* ------------------------------------------------------------------ values
\* The correlation ids (Uuid values) the callers and the peer use.
Ids == {1, 2}
\* The "id" field of a decoded frame: absent, present but not a UUID string,
\* or a UUID.
NoId == 0
BadId == -1

RespPayloads == {"ok", "err"}

\* One item of the inbound stream, as read_line sees it: a line of JSON text
\* (kind "json", with its "id", "type" and "data" fields), a line that is not
\* JSON ("bad"), end of file ("eof": read_line returns Ok(0) and an empty
\* buffer) or a failed read ("ioerr").
Line(k, i, t, d) == [kind |-> k, id |-> i, type |-> t, data |-> d]
Resp(i, p) == Line("json", i, "none", p)
Event(e) == Line("json", NoId, "IncomingMessage", e)
BadLine == Line("bad", NoId, "none", "none")
EofLine == Line("eof", NoId, "none", "none")
IoErrLine == Line("ioerr", NoId, "none", "none")

\* The "data" of the n-th event frame the peer sends.
EventData(n) == ToString(n)

\* The lines an arbitrary peer may send next, n being the number of event
\* frames it has sent so far: the payload of an event frame is its place in
\* the sequence of event frames (the first carries 1, the second 2, ...).
Lines(n) ==
    {Resp(i, p) : i \in Ids, p \in RespPayloads}
    \cup { Event(EventData(n + 1)),
           Line("json", 1, "IncomingMessage", "ok"),
           Line("json", BadId, "none", "ok"),
           Line("json", NoId, "none", "ok"),
           Line("json", NoId, "other", "ok"),
           Line("json", NoId, "IncomingMessage", "none"),
           Line("json", NoId, "IncomingMessage", "bad"),
           BadLine, EofLine, IoErrLine }

\* serde_json::from_value::<IncomingMessageV1>(data): the typed message
\* decoded from the "data" field.
IncomingMessageV1(d) == [msg |-> d]

\* What the subscriber's recv() yields at the end of the event sequence
\* (None), recorded in the sequence of what it has observed.
EndOfStream == [msg |-> "end"]

NoRet == [op |-> "none", id |-> NoId, kind |-> "none", val |-> BadLine]
Ret(o, i, k, v) == [op |-> o, id |-> i, kind |-> k, val |-> v]

VARIABLES
    map,        \* response_map: id -> index into chans of its entry, 0: no entry
    chans,      \* every mpsc::channel(1) made by write(), in creation order
    poisoned,   \* the response_map mutex is poisoned
    listening,  \* the listening flag
    outbound,   \* ids of the requests written to the outbound stream
    wire,       \* inbound stream: lines not yet read
    nlines,     \* lines the peer has sent
    nevents,    \* event frames the peer has sent
    rdlog,      \* the frames with a UUID id that read_line has returned
    lpc,        \* listen(): "read", "send", "evsend", "panicked"
    lerr,       \* listen(): which unwrap panicked
    ltx,        \* listen(): channel of the cloned sender, 0: none
    lval,       \* listen(): the value being sent
    evq,        \* subscriber channel buffer
    subOpen,    \* the subscriber Receiver is alive
    got,        \* events the subscriber has received
    cpc,        \* caller: "idle", "write_all", "recv"
    cid,        \* caller: id of the call in progress
    crx,        \* caller: channel of the taken receiver, 0: none
    ret,        \* result of the last completed call
    ncalls,     \* calls started
    answered,   \* ids the protocol-following peer has answered
    owed,       \* ids the protocol-following peer has answered with no value
                \* returned by get_response since
    guard       \* the task that holds the registry MutexGuard, "none": free

vars == <<map, chans, poisoned, listening, outbound, wire, nlines, nevents,
          rdlog, lpc, lerr,
          ltx, lval, evq, subOpen, got, cpc, cid, crx, ret, ncalls, answered,
          owed, guard>>

listenerVars == <<lpc, lerr, ltx, lval>>
peerVars == <<nlines, nevents>>
callerVars == <<cpc, cid, crx, ret, ncalls>>

\* ------------------------------------------------------------------- Init
\* Socket::connect: empty registry, listening = true, empty subscriber
\* channel, listen() spawned.
Init ==
    /\ map = [i \in Ids |-> 0]
    /\ chans = <<>>
    /\ poisoned = FALSE
    /\ listening = TRUE
    /\ outbound = <<>>
    /\ wire = <<>>
    /\ nlines = 0
    /\ nevents = 0
    /\ rdlog = {}
    /\ lpc = "read"
    /\ lerr = "none"
    /\ ltx = 0
    /\ lval = BadLine
    /\ evq = <<>>
    /\ subOpen = TRUE
    /\ got = <<>>
    /\ cpc = "idle"
    /\ cid = NoId
    /\ crx = 0
    /\ ret = NoRet
    /\ ncalls = 0
    /\ answered = {}
    /\ owed = {}
    /\ guard = "none"

\* ------------------------------------------------------ channel helpers
\* mpsc::channel(1) made for id: empty buffer, the Receiver stored in the
\* registry entry (Some(rx)), the Sender stored in the registry entry.
NewChannel(id) == [id |-> id, buf |-> <<>>, rx |-> "map", tx |-> TRUE]

\* Faulty insert: the replaced entry's Receiver is kept alive.
DropEntryKeepReceiver(ch) == [ch EXCEPT !.tx = FALSE]

\* Dropping a registry entry (HashMap::insert returning the old value, which
\* is dropped): its Sender goes, and its Receiver too when it was still in
\* the entry; a dropped Receiver drops what the channel buffers.
DropEntry(ch) ==
    IF ch.rx = "map"
    THEN [ch EXCEPT !.tx = FALSE, !.rx = "dropped", !.buf = <<>>]
    ELSE [ch EXCEPT !.tx = FALSE]

\* Faulty return: the Receiver is put back into the registry entry.
DropReceiverPutBack(ch) == [ch EXCEPT !.rx = "map", !.buf = <<>>]

\* Dropping a Receiver closes the channel and drops its buffer.
DropReceiver(ch) == [ch EXCEPT !.rx = "dropped", !.buf = <<>>]

\* Faulty registry: the entry keeps no Sender, the listener holds the only one.
SenderAliveListenerOnly(c) == lpc = "send" /\ ltx = c

\* A Sender of channel c is alive: the registry's, or the clone listen()
\* holds while it sends.
SenderAlive(c) == chans[c].tx \/ (lpc = "send" /\ ltx = c)

\* ------------------------------------------------------ the registry lock
\* Faulty scope: the MutexGuard is bound to a local that is still alive at
\* the await that follows the locking statement.
GuardHeldAtAwait(task) == task

\* Lines 59-62, 69-74 and 122: the MutexGuard is a temporary of the statement
\* that locks, dropped at the end of that statement; at the await that
\* follows (write_all, recv, send) the task holds no guard.
GuardAtAwait(task) == "none"

\* --------------------------------------------------------- Socket::write
\* Faulty receiver: a shared borrow, calls may start while one is in progress.
SharedBorrow == TRUE

\* Lines 57 and 68: write and get_response take &mut self, so a call starts
\* only when no other call on the Socket is in progress.
ExclusiveBorrow == cpc = "idle"

\* Faulty write: the request goes out with no entry inserted for its id.
WriteWithoutRegister(id) ==
    /\ ExclusiveBorrow
    /\ ncalls < MaxCalls
    /\ ncalls' = ncalls + 1
    /\ cpc' = "write_all"
    /\ cid' = id
    /\ ret' = NoRet
    /\ UNCHANGED <<map, chans, poisoned, listening, outbound, wire, peerVars,
                   rdlog, listenerVars, evq, subOpen, got, crx, answered,
                   owed>>
    /\ UNCHANGED guard

\* Faulty lock: a poisoned registry mutex still hands out its guard.
LockNeverPoisoned == FALSE

\* Lines 59, 69 and 122: lock() returns Err once a task has panicked holding
\* the guard, and the unwrap() on it panics.
LockPoisoned == poisoned

\* Lines 58-62: make the channel and insert it under id, replacing (and
\* dropping) an entry id already has; lock().unwrap() panics on a poisoned
\* mutex. Then the call suspends in write_all.
WriteRegister(id) ==
    /\ ExclusiveBorrow
    /\ ncalls < MaxCalls
    /\ ncalls' = ncalls + 1
    /\ IF LockPoisoned
       THEN /\ ret' = Ret("write", id, "panic", BadLine)
            /\ UNCHANGED <<map, chans, cpc, cid>>
       ELSE /\ chans' = Append(
                    [c \in 1..Len(chans) |->
                        IF c = map[id] THEN DropEntry(chans[c]) ELSE chans[c]],
                    NewChannel(id))
            /\ map' = [map EXCEPT ![id] = Len(chans) + 1]
            /\ cpc' = "write_all"
            /\ cid' = id
            /\ ret' = NoRet
    /\ guard = "none"
    /\ guard' = IF LockPoisoned THEN "none" ELSE GuardAtAwait("caller")
    /\ UNCHANGED <<poisoned, listening, outbound, wire, peerVars, rdlog, listenerVars,
                   evq, subOpen, got, crx, answered, owed>>

\* Lines 64-65: write_all either puts the request on the outbound stream and
\* write returns Ok(()), or fails and write returns SocketError::Io.
\* (Faulty variant first: a failed write_all is swallowed and Ok returned.)
WriteFlushSwallow ==
    /\ cpc = "write_all"
    /\ \E ok \in BOOLEAN :
        /\ outbound' = IF ok THEN Append(outbound, cid) ELSE outbound
        /\ ret' = Ret("write", cid, "ok", BadLine)
    /\ cpc' = "idle"
    /\ cid' = NoId
    /\ UNCHANGED <<map, chans, poisoned, listening, wire, peerVars, rdlog, listenerVars,
                   evq, subOpen, got, crx, ncalls, answered, owed>>
    /\ UNCHANGED guard

WriteFlush ==
    /\ cpc = "write_all"
    /\ \E ok \in BOOLEAN :
        /\ outbound' = IF ok THEN Append(outbound, cid) ELSE outbound
        /\ ret' = Ret("write", cid, IF ok THEN "ok" ELSE "io", BadLine)
    /\ cpc' = "idle"
    /\ cid' = NoId
    /\ UNCHANGED <<map, chans, poisoned, listening, wire, peerVars, rdlog, listenerVars,
                   evq, subOpen, got, crx, ncalls, answered, owed>>
    /\ UNCHANGED guard

\* -------------------------------------------------- Socket::get_response
\* Faulty take: a Receiver is handed out whether or not one is left.
ReceiverInEntryAlways(ch) == TRUE

\* Line 70: channel.1.take() is Some, the Receiver is still in the entry.
ReceiverInEntry(ch) == ch.rx = "map"

\* Lines 69-74: under the registry lock, take the Receiver out of id's entry.
\* No entry: Err(General). Entry whose Receiver is already taken:
\* take().unwrap() panics with the lock held, which poisons the mutex.
GetResponseTake(id) ==
    /\ ExclusiveBorrow
    /\ ncalls < MaxCalls
    /\ ncalls' = ncalls + 1
    /\ IF LockPoisoned
       THEN /\ ret' = Ret("get_response", id, "panic", BadLine)
            /\ UNCHANGED <<chans, poisoned, cpc, cid, crx>>
       ELSE IF map[id] = 0
       THEN /\ ret' = Ret("get_response", id, "general", BadLine)
            /\ UNCHANGED <<chans, poisoned, cpc, cid, crx>>
       ELSE IF ~ReceiverInEntry(chans[map[id]])
       THEN /\ ret' = Ret("get_response", id, "panic", BadLine)
            /\ poisoned' = TRUE
            /\ UNCHANGED <<chans, cpc, cid, crx>>
       ELSE /\ chans' = [chans EXCEPT ![map[id]].rx = "taken"]
            /\ cpc' = "recv"
            /\ cid' = id
            /\ crx' = map[id]
            /\ ret' = NoRet
            /\ UNCHANGED poisoned
    /\ guard = "none"
    /\ guard' = IF ~LockPoisoned /\ map[id] # 0 /\ ReceiverInEntry(chans[map[id]])
                THEN GuardAtAwait("caller") ELSE "none"
    /\ UNCHANGED <<map, listening, outbound, wire, peerVars, rdlog, listenerVars, evq,
                   subOpen, got, answered, owed>>

\* Lines 76-79: receiver.recv().await returns the buffered value, or None once
\* the buffer is empty and every Sender is gone (mapped to
\* SocketError::Channel); otherwise it stays suspended. Returning drops the
\* Receiver.
GetResponseRecv ==
    /\ cpc = "recv"
    /\ IF chans[crx].buf # <<>>
       THEN /\ ret' = Ret("get_response", cid, "value", Head(chans[crx].buf))
            /\ owed' = owed \ {cid}
       ELSE /\ ~SenderAlive(crx)
            /\ ret' = Ret("get_response", cid, "channel", BadLine)
            /\ owed' = owed
    /\ chans' = [chans EXCEPT ![crx] = DropReceiver(chans[crx])]
    /\ cpc' = "idle"
    /\ cid' = NoId
    /\ crx' = 0
    /\ UNCHANGED <<map, poisoned, listening, outbound, wire, peerVars, rdlog,
                   listenerVars, evq, subOpen, got, ncalls, answered>>
    /\ UNCHANGED guard

\* The caller drops the pending get_response future (its own timeout): the
\* taken Receiver is dropped with it.
GetResponseCancel ==
    /\ cpc = "recv"
    /\ chans' = [chans EXCEPT ![crx] = DropReceiver(chans[crx])]
    /\ ret' = Ret("get_response", cid, "cancelled", BadLine)
    /\ cpc' = "idle"
    /\ cid' = NoId
    /\ crx' = 0
    /\ UNCHANGED <<map, poisoned, listening, outbound, wire, peerVars, rdlog,
                   listenerVars, evq, subOpen, got, ncalls, answered, owed>>
    /\ UNCHANGED guard

\* ---------------------------------------------------------------- listen
\* The listener task panics at one of its unwraps and is gone.
Panicked(why) ==
    /\ lpc' = "panicked"
    /\ lerr' = why
    /\ ltx' = 0
    /\ lval' = BadLine

\* The loop goes on to its next iteration (buf.clear(), line 140).
NextLine ==
    /\ lpc' = "read"
    /\ ltx' = 0
    /\ lval' = BadLine
    /\ UNCHANGED lerr

\* Faulty lookup: the Sender of the first registered entry, whatever the id.
LookupFirstEntry(id) == IF map[1] # 0 THEN map[1] ELSE map[id]

\* Line 122: the Sender of id's registry entry, cloned.
Lookup(id) == map[id]

\* Faulty send: the frame unwrapped to its "data", the routing fields gone.
SlotValueDataOnly(ln) == Line("json", NoId, "none", ln.data)

\* Line 123: the value sent to the waiter is the whole decoded frame.
SlotValue(ln) == ln

\* Faulty routing: the type is looked at first, so a frame tagged as an event
\* is not treated as a response even when it has an id.
HasIdUnlessEvent(ln) == ln.id # NoId /\ ln.type # "IncomingMessage"

\* Faulty routing: a frame whose payload reports an application error is not
\* treated as a response.
HasIdAndSuccess(ln) == ln.id # NoId /\ ln.data # "err"

\* Line 120: if let Some(id) = response.get("id").
HasId(ln) == ln.id # NoId

\* Faulty tag test: any frame that has a type is taken for a push event.
IsAnyType(ln) == ln.type # "none"

\* Line 129: if let Some("IncomingMessage") = response.get("type")...as_str().
IsIncomingMessage(ln) == ln.type = "IncomingMessage"

\* Lines 115-122 and 129-131: one iteration up to its send. read_line
\* returns the next item of the stream; Err is printed and the loop goes on;
\* Ok (end of file included, with an empty buffer) is parsed with
\* from_str(..).unwrap(). A frame with an "id" is looked up in the registry
\* under the lock (each step an unwrap) and the entry's Sender cloned; a frame
\* without one must have a "type", and when that is "IncomingMessage" its
\* "data" is decoded; any other type falls through.
ListenRead ==
    /\ lpc = "read"
    /\ listening
    /\ wire # <<>>
    /\ LET ln == Head(wire) IN
        /\ wire' = Tail(wire)
        /\ rdlog' = IF ln.kind = "json" /\ ln.id \in Ids
                    THEN rdlog \cup {ln} ELSE rdlog
        /\ CASE ln.kind = "ioerr" ->
                    NextLine /\ UNCHANGED poisoned
             [] ln.kind \in {"bad", "eof"} ->
                    Panicked("from_str") /\ UNCHANGED poisoned
             [] ln.kind = "json" /\ HasId(ln) /\ ln.id = BadId ->
                    Panicked("parse_str") /\ UNCHANGED poisoned
             [] ln.kind = "json" /\ HasId(ln) /\ ln.id \in Ids /\ LockPoisoned ->
                    Panicked("lock") /\ UNCHANGED poisoned
             [] ln.kind = "json" /\ HasId(ln) /\ ln.id \in Ids /\ ~LockPoisoned
                    /\ map[ln.id] = 0 ->
                    Panicked("get") /\ poisoned' = TRUE
             [] ln.kind = "json" /\ HasId(ln) /\ ln.id \in Ids /\ ~LockPoisoned
                    /\ map[ln.id] # 0 ->
                    /\ lpc' = "send"
                    /\ ltx' = Lookup(ln.id)
                    /\ lval' = SlotValue(ln)
                    /\ UNCHANGED <<lerr, poisoned>>
             [] ln.kind = "json" /\ ~HasId(ln) /\ ln.type = "none" ->
                    Panicked("type") /\ UNCHANGED poisoned
             [] ln.kind = "json" /\ ~HasId(ln)
                    /\ IsIncomingMessage(ln) /\ ln.data = "none" ->
                    Panicked("data") /\ UNCHANGED poisoned
             [] ln.kind = "json" /\ ~HasId(ln)
                    /\ IsIncomingMessage(ln) /\ ln.data = "bad" ->
                    Panicked("from_value") /\ UNCHANGED poisoned
             [] ln.kind = "json" /\ ~HasId(ln)
                    /\ IsIncomingMessage(ln)
                    /\ ln.data \notin {"none", "bad"} ->
                    /\ lpc' = "evsend"
                    /\ ltx' = 0
                    /\ lval' = IncomingMessageV1(ln.data)
                    /\ UNCHANGED <<lerr, poisoned>>
             [] OTHER ->
                    NextLine /\ UNCHANGED poisoned
        /\ (ln.kind = "json" /\ ln.id \in Ids) => guard = "none"
    /\ guard' = IF lpc' = "send" THEN GuardAtAwait("listener") ELSE guard
    /\ UNCHANGED <<map, chans, listening, outbound, peerVars, evq, subOpen,
                   got, callerVars, answered, owed>>

\* Faulty send: the listener removes the entry it has sent to from the
\* registry.
ListenSendRemoveEntry ==
    /\ lpc = "send"
    /\ IF chans[ltx].rx = "dropped"
       THEN UNCHANGED chans
       ELSE /\ Len(chans[ltx].buf) < SlotCap
            /\ chans' = [chans EXCEPT ![ltx].buf = Append(@, lval)]
    /\ map' = [i \in Ids |-> IF map[i] = ltx THEN 0 ELSE map[i]]
    /\ NextLine
    /\ UNCHANGED <<poisoned, listening, outbound, wire, peerVars, rdlog, evq,
                   subOpen, got, callerVars, answered, owed>>
    /\ UNCHANGED guard

\* Lines 123-128: sender.send(response).await. A closed channel (Receiver
\* dropped) gives Err, which is printed; a channel with room takes the value;
\* a full channel keeps the listener suspended.
ListenSend ==
    /\ lpc = "send"
    /\ IF chans[ltx].rx = "dropped"
       THEN UNCHANGED chans
       ELSE /\ Len(chans[ltx].buf) < SlotCap
            /\ chans' = [chans EXCEPT ![ltx].buf = Append(@, lval)]
    /\ NextLine
    /\ UNCHANGED <<map, poisoned, listening, outbound, wire, peerVars, rdlog, evq,
                   subOpen, got, callerVars, answered, owed>>
    /\ UNCHANGED guard

\* Faulty queue: the event is put at the front of the subscriber channel.
ListenEvSendFront ==
    /\ lpc = "evsend"
    /\ subOpen
    /\ Len(evq) < EventQueueCap
    /\ evq' = <<lval>> \o evq
    /\ lpc' = "read"
    /\ ltx' = 0
    /\ lval' = BadLine
    /\ UNCHANGED <<lerr, map, chans, poisoned, listening, outbound, wire,
                   peerVars, rdlog, subOpen, got, callerVars, answered, owed>>
    /\ UNCHANGED guard

\* Faulty queue: the event is queued whether or not the channel has room.
ListenEvSendUnbounded ==
    /\ lpc = "evsend"
    /\ IF ~subOpen
       THEN Panicked("subscriber") /\ UNCHANGED evq
       ELSE /\ evq' = Append(evq, lval)
            /\ NextLine
    /\ UNCHANGED <<map, chans, poisoned, listening, outbound, wire, peerVars, rdlog,
                   subOpen, got, callerVars, answered, owed>>
    /\ UNCHANGED guard

\* Line 132: subscriber_tx.send(msg).await.unwrap(). A closed subscriber
\* channel panics; a full one keeps the listener suspended.
ListenEvSend ==
    /\ lpc = "evsend"
    /\ IF ~subOpen
       THEN Panicked("subscriber") /\ UNCHANGED evq
       ELSE /\ Len(evq) < EventQueueCap
            /\ evq' = Append(evq, lval)
            /\ NextLine
    /\ UNCHANGED <<map, chans, poisoned, listening, outbound, wire, peerVars, rdlog,
                   subOpen, got, callerVars, answered, owed>>
    /\ UNCHANGED guard

\* ------------------------------------------------------------ subscriber
\* socket.subscriber.recv().await: the next queued event.
SubscriberRecv ==
    /\ subOpen
    /\ evq # <<>>
    /\ got' = Append(got, Head(evq))
    /\ evq' = Tail(evq)
    /\ UNCHANGED <<map, chans, poisoned, listening, outbound, wire, peerVars, rdlog,
                   listenerVars, subOpen, callerVars, answered, owed>>
    /\ UNCHANGED guard

\* The subscriber has observed the end of its event sequence.
Ended == got # <<>> /\ got[Len(got)] = EndOfStream

\* Faulty channel: recv() yields None as soon as the buffer is empty.
SubscriberEndWhenEmpty ==
    /\ subOpen
    /\ evq = <<>>
    /\ ~Ended
    /\ got' = Append(got, EndOfStream)
    /\ UNCHANGED <<map, chans, poisoned, listening, outbound, wire, peerVars,
                   rdlog, listenerVars, evq, subOpen, callerVars, answered,
                   owed>>
    /\ UNCHANGED guard

\* socket.subscriber.recv().await yields None: the channel buffer is empty
\* and its only Sender, subscriber_tx, moved into the listener task at line
\* 99, has been dropped, which happens when that task ends.
SubscriberEnd ==
    /\ subOpen
    /\ evq = <<>>
    /\ lpc \in {"panicked", "stopped"}
    /\ ~Ended
    /\ got' = Append(got, EndOfStream)
    /\ UNCHANGED <<map, chans, poisoned, listening, outbound, wire, peerVars,
                   rdlog, listenerVars, evq, subOpen, callerVars, answered,
                   owed>>
    /\ UNCHANGED guard

\* ------------------------------------------------------- Socket lifecycle
\* Faulty connect: the listener is spawned before the stream is opened.
ConnectSpawnFirst ==
    /\ cpc = "unconnected"
    /\ \E ok \in BOOLEAN :
        /\ cpc' = IF ok THEN "idle" ELSE "failed"
        /\ ret' = Ret("connect", NoId, IF ok THEN "ok" ELSE "io", BadLine)
        /\ listening' = TRUE
        /\ subOpen' = ok
        /\ lpc' = "read"
    /\ UNCHANGED <<map, chans, poisoned, outbound, wire, peerVars, rdlog, lerr,
                   ltx, lval, evq, got, cid, crx, ncalls, answered, owed>>
    /\ UNCHANGED guard

\* Lines 84-103: UnixStream::connect(path).await? returns the I/O error
\* before anything is built; otherwise the empty registry, the flag set to
\* true and the subscriber channel are made, listen() is spawned with the
\* registry, the flag and the channel's Sender, and the Socket is returned.
Connect ==
    /\ cpc = "unconnected"
    /\ \E ok \in BOOLEAN :
        IF ok
        THEN /\ map' = [i \in Ids |-> 0]
             /\ chans' = <<>>
             /\ poisoned' = FALSE
             /\ listening' = TRUE
             /\ evq' = <<>>
             /\ subOpen' = TRUE
             /\ lpc' = "read"
             /\ cpc' = "idle"
             /\ ret' = Ret("connect", NoId, "ok", BadLine)
        ELSE /\ cpc' = "failed"
             /\ ret' = Ret("connect", NoId, "io", BadLine)
             /\ UNCHANGED <<map, chans, poisoned, listening, evq, subOpen,
                            lpc>>
    /\ guard' = "none"
    /\ UNCHANGED <<outbound, wire, peerVars, rdlog, lerr, ltx, lval, got, cid,
                   crx, ncalls, answered, owed>>

\* The Socket is dropped (lines 47-53 are its fields; it has no Drop impl and
\* no close method): the write half, its clones of the registry and flag
\* Arcs, and the subscriber Receiver with what it buffers are dropped. The
\* flag's value is not changed and the spawned listener task is detached, so
\* it lives on with its own clones.
SocketDrop ==
    /\ cpc = "idle"
    /\ cpc' = "dropped"
    /\ subOpen' = FALSE
    /\ evq' = <<>>
    /\ UNCHANGED <<map, chans, poisoned, listening, outbound, wire, peerVars,
                   rdlog, listenerVars, got, cid, crx, ret, ncalls, answered,
                   owed>>
    /\ UNCHANGED guard

\* -------------------------------------------------------------- the peer
IsResponse(ln) == ln.kind = "json" /\ ln.id \in Ids

\* The peer may send another line: the stream is not at end of file, and a
\* line sent after the listener is gone is never read.
StreamOpen ==
    /\ lpc # "panicked"
    /\ \A k \in 1..Len(wire) : wire[k].kind # "eof"

Sent(ln) ==
    /\ wire' = Append(wire, ln)
    /\ nlines' = nlines + 1
    /\ nevents' = IF ln.kind = "json" /\ ln.id = NoId
                     /\ ln.type = "IncomingMessage" /\ ln.data = EventData(nevents + 1)
                  THEN nevents + 1 ELSE nevents

\* An arbitrary peer: any line arrives on the inbound stream. The listener
\* sees one line at a time, so the next line is chosen once the one before
\* it has been read.
Arrive(ln) ==
    /\ StreamOpen
    /\ wire = <<>>
    /\ nlines < MaxLines
    /\ Sent(ln)
    /\ UNCHANGED <<map, chans, poisoned, listening, outbound, rdlog,
                   listenerVars, evq, subOpen, got, callerVars, answered,
                   owed>>
    /\ UNCHANGED guard

\* A peer that follows the protocol answers a request it has received, each
\* id at most once.
PeerAnswer(id, p) ==
    /\ StreamOpen
    /\ Len(wire) < MaxWire
    /\ nlines < MaxPeerLines
    /\ \E k \in 1..Len(outbound) : outbound[k] = id
    /\ id \notin answered
    /\ answered' = answered \cup {id}
    /\ Sent(Resp(id, p))
    /\ owed' = owed \cup {id}
    /\ UNCHANGED <<map, chans, poisoned, listening, outbound, rdlog,
                   listenerVars, evq, subOpen, got, callerVars>>
    /\ UNCHANGED guard

\* A peer that follows the protocol pushes a well-formed event.
PeerPush ==
    /\ StreamOpen
    /\ Len(wire) < MaxWire
    /\ nlines < MaxPeerLines
    /\ Sent(Event(EventData(nevents + 1)))
    /\ UNCHANGED <<map, chans, poisoned, listening, outbound, rdlog,
                   listenerVars, evq, subOpen, got, callerVars, answered,
                   owed>>
    /\ UNCHANGED guard

\* The peer writes the line ln to the stream; a response answers its id.
PeerSend(ln) ==
    /\ StreamOpen
    /\ Sent(ln)
    /\ answered' = IF IsResponse(ln) THEN answered \cup {ln.id} ELSE answered
    /\ UNCHANGED <<map, chans, poisoned, listening, outbound, rdlog,
                   listenerVars, evq, subOpen, got, callerVars, owed>>
    /\ UNCHANGED guard

\* -------------------------------------------------------- specifications
Next ==
    \/ \E id \in Ids : WriteRegister(id)
    \/ WriteFlush
    \/ \E id \in Ids : GetResponseTake(id)
    \/ GetResponseRecv
    \/ GetResponseCancel
    \/ ListenRead
    \/ ListenSend
    \/ ListenEvSend
    \/ SubscriberRecv
    \/ \E ln \in Lines(nevents) : Arrive(ln)

Spec == Init /\ [][Next]_vars

NextPeer ==
    \/ \E id \in Ids : WriteRegister(id)
    \/ WriteFlush
    \/ \E id \in Ids : GetResponseTake(id)
    \/ GetResponseRecv
    \/ ListenRead
    \/ ListenSend
    \/ ListenEvSend
    \/ SubscriberRecv
    \/ \E id \in Ids, p \in RespPayloads : PeerAnswer(id, p)
    \/ PeerPush

\* The tokio runtime keeps polling the listener task, the subscriber and a
\* waiting get_response whenever they can make progress.
SpecPeer ==
    /\ Init
    /\ [][NextPeer]_vars
    /\ WF_vars(ListenRead)
    /\ WF_vars(ListenSend)
    /\ WF_vars(ListenEvSend)
    /\ WF_vars(SubscriberRecv)
    /\ WF_vars(GetResponseRecv)

\* Before Socket::connect is called: no stream, no registry, no listener.
InitLife ==
    /\ map = [i \in Ids |-> 0]
    /\ chans = <<>>
    /\ poisoned = FALSE
    /\ listening = FALSE
    /\ outbound = <<>>
    /\ wire = <<>>
    /\ nlines = 0
    /\ nevents = 0
    /\ rdlog = {}
    /\ lpc = "unspawned"
    /\ lerr = "none"
    /\ ltx = 0
    /\ lval = BadLine
    /\ evq = <<>>
    /\ subOpen = FALSE
    /\ got = <<>>
    /\ cpc = "unconnected"
    /\ cid = NoId
    /\ crx = 0
    /\ ret = NoRet
    /\ ncalls = 0
    /\ answered = {}
    /\ owed = {}
    /\ guard = "none"

\* The whole life of a Socket: connect, calls, the subscriber reading events
\* to their end, and the drop of the Socket, against an arbitrary peer.
NextLife ==
    \/ Connect
    \/ ncalls < MaxLifeCalls /\ \E id \in Ids : WriteRegister(id)
    \/ WriteFlush
    \/ ncalls < MaxLifeCalls /\ \E id \in Ids : GetResponseTake(id)
    \/ GetResponseRecv
    \/ SocketDrop
    \/ ListenRead
    \/ ListenSend
    \/ ListenEvSend
    \/ SubscriberRecv
    \/ SubscriberEnd
    \/ nlines < MaxLifeLines /\ lpc # "unspawned"
            /\ \E ln \in Lines(nevents) : Arrive(ln)

SpecLife ==
    /\ InitLife
    /\ [][NextLife]_vars
    /\ WF_vars(ListenRead)
    /\ WF_vars(ListenSend)
    /\ WF_vars(ListenEvSend)
    /\ WF_vars(SubscriberRecv)
    /\ WF_vars(SubscriberEnd)

\* A peer that pushes events without end and answers each request once,
\* one line at a time, to a subscriber that consumes events or does not.
NextQueue ==
    \/ ncalls < MaxQueueCalls /\ \E id \in Ids : WriteRegister(id)
    \/ WriteFlush
    \/ ncalls < MaxQueueCalls /\ \E id \in Ids : GetResponseTake(id)
    \/ GetResponseRecv
    \/ ListenRead
    \/ ListenSend
    \/ ListenEvSend
    \/ SubscriberRecv
    \/ /\ nlines < MaxQueueLines
       /\ wire = <<>>
       /\ PeerSend(Event(EventData(nevents + 1)))
    \/ /\ nlines < MaxQueueLines
       /\ wire = <<>>
       /\ \E id \in Ids \ answered :
            /\ \E k \in 1..Len(outbound) : outbound[k] = id
            /\ PeerSend(Resp(id, "ok"))

\* The runtime keeps polling the listener task and a waiting get_response;
\* nothing obliges the subscriber to call recv().
SpecQueue ==
    /\ Init
    /\ [][NextQueue]_vars
    /\ WF_vars(ListenRead)
    /\ WF_vars(ListenSend)
    /\ WF_vars(ListenEvSend)
    /\ WF_vars(GetResponseRecv)

\* ================================================================ claims
\* The listener takes the next line off the inbound stream in this step.
ListenerReads == lpc = "read" /\ wire # <<>> /\ wire' = Tail(wire)

\* The entry of id is live: it exists and its Receiver has not been dropped.
EntryLive(id) == map[id] # 0 /\ chans[map[id]].rx # "dropped"

\* C1: a response frame carrying id a is placed only in the channel made for
\* a, and is returned only by get_response(a), whatever the order in which
\* the responses of two registered ids arrive.
C1_ResponseOnlyToItsId ==
    /\ \A c \in 1..Len(chans) : \A k \in 1..Len(chans[c].buf) :
            chans[c].buf[k].id = chans[c].id
    /\ lpc = "send" => lval.id = chans[ltx].id
    /\ ret.kind = "value" => ret.val.id = ret.id

\* C1 witness: both ids registered, the response of id 2 read first and
\* waiting in its own channel, get_response(1) has returned a value.
C1_Witness ==
    /\ map[1] # 0 /\ map[2] # 0
    /\ chans[map[2]].buf # <<>>
    /\ ret.kind = "value" /\ ret.id = 1

\* C2: write() with an id whose entry is live fails and leaves that entry
\* in place; the entry is never overwritten.
C2_LiveEntryNotOverwritten ==
    [][\A id \in Ids : EntryLive(id) => map'[id] = map[id]]_vars

\* C3: reading a response frame whose id has no registry entry does not
\* crash the listener.
C3_UnknownIdNotFatal ==
    [][(ListenerReads /\ IsResponse(Head(wire)) /\ ~poisoned
            /\ map[Head(wire).id] = 0) => lpc' # "panicked"]_vars

\* C4: the subscriber receives the push events in the order their frames
\* arrived: the k-th event received is the k-th event frame sent, and the
\* events queued behind follow in the same order.
C4_EventsInWireOrder ==
    /\ \A k \in 1..Len(got) : got[k] = IncomingMessageV1(EventData(k))
    /\ \A k \in 1..Len(evq) :
            evq[k] = IncomingMessageV1(EventData(Len(got) + k))

\* C4 witness: three events received, with a response frame read among them.
C4_Witness == Len(got) = 3 /\ rdlog # {}

\* C5: a line that is not valid JSON is discarded and the listener goes on
\* to read the next line.
C5_BadLineDiscarded ==
    [][(ListenerReads /\ Head(wire).kind = "bad") => lpc' = "read"]_vars

\* C6: at end of file the listener stops without panicking.
C6_EofStopsWithoutPanic ==
    [][(ListenerReads /\ Head(wire).kind = "eof") => lpc' # "panicked"]_vars

\* C7: once the listener has terminated, a get_response waiting on an empty
\* channel never returns a value and never returns an error.
C7_PendingForeverAfterListenerEnds ==
    [][(lpc = "panicked" /\ cpc = "recv" /\ chans[crx].buf = <<>>)
            => (cpc' = "recv" \/ ret'.kind = "cancelled")]_vars

\* C7 witness: the listener is gone while get_response waits on an empty
\* channel.
C7_Witness == lpc = "panicked" /\ cpc = "recv" /\ chans[crx].buf = <<>>

\* C8: the entry of an id is in the registry before the request reaches the
\* outbound stream, so every response frame of a peer that answers only what
\* it has received names a registered id when the listener reads it.
C8_RegisteredBeforeSent ==
    /\ \A k \in 1..Len(outbound) : map[outbound[k]] # 0
    /\ \A k \in 1..Len(wire) : IsResponse(wire[k]) => map[wire[k].id] # 0
    /\ lerr # "get"

\* C8 witness: the listener has looked up the id of a response frame.
C8_Witness == lpc = "send" /\ lval.id = 2

\* C9: the value get_response(id) returns is a whole frame the listener
\* read, carrying id, as it was decoded.
C9_ReturnsWholeFrame ==
    /\ \A c \in 1..Len(chans) : \A k \in 1..Len(chans[c].buf) :
            chans[c].buf[k] \in rdlog
    /\ ret.kind = "value" => (ret.val \in rdlog /\ ret.val.id = ret.id)

\* C9 witness: get_response has returned a frame with an error payload.
C9_Witness == ret.kind = "value" /\ ret.val = Resp(ret.id, "err")

\* C10: with a fair listener, subscriber and waiter, a get_response(id)
\* called after write(id) returns a value once the peer has put the response
\* frame of id on the wire.
C10_ResponseEventuallyReturned ==
    \A id \in Ids :
        (cpc = "recv" /\ cid = id /\ id \in owed)
            ~> (ret.kind = "value" /\ ret.id = id)

\* The frame carries no id and its type is the push-event tag.
IsEventFrame(ln) ==
    ln.kind = "json" /\ ln.id = NoId /\ ln.type = "IncomingMessage"

\* C11: every frame with no id and type IncomingMessage is delivered to the
\* subscriber: when the listener reads one, it goes on to send the decoded
\* "data" of that frame to the subscriber channel.
C11_EveryEventFrameForwarded ==
    [][(ListenerReads /\ IsEventFrame(Head(wire)))
            => (lpc' = "evsend" /\ lval'.msg = Head(wire).data)]_vars

\* C12: routing looks at the id first. A frame that carries an id is never
\* put on the event queue, whatever its type; a frame with no id is never
\* sent to a delivery slot; what the listener sends to a slot always has an id.
C12_IdDecidesRouting ==
    [][/\ ListenerReads =>
            LET ln == Head(wire) IN
            /\ (ln.kind = "json" /\ ln.id # NoId)
                    => (lpc' # "evsend" /\ evq' = evq)
            /\ (ln.kind = "json" /\ ln.id = NoId)
                    => (lpc' # "send" /\ chans' = chans)
       /\ evq' # evq => (lpc = "evsend" \/ evq' = Tail(evq))
       /\ lpc' = "send" => lval'.id # NoId]_vars

\* C12 witness: a frame with an id and the event tag is on its way to the
\* slot of its id.
C12_Witness ==
    lpc = "send" /\ lval.type = "IncomingMessage" /\ ltx = map[lval.id]

\* This step is a call of get_response(id): it returns at once or suspends in
\* recv().
GetResponseCalled(id) ==
    /\ ncalls' = ncalls + 1
    /\ \/ cpc' = "recv" /\ cid' = id
       \/ cpc' = "idle" /\ ret'.op = "get_response" /\ ret'.id = id

\* C13: get_response(id) on an entry whose Receiver has already been taken
\* fails (the call panics): it hands out no Receiver, does not suspend and
\* returns no value; a value is only ever returned by a call that holds the
\* one Receiver of its channel.
C13_SecondTakeFails ==
    [][/\ \A id \in Ids :
            (/\ GetResponseCalled(id)
             /\ map[id] # 0
             /\ chans[map[id]].rx # "map")
            => /\ cpc' = "idle"
               /\ crx' = 0
               /\ ret'.kind = "panic"
               /\ chans' = chans
       /\ (cpc' = "idle" /\ ret'.kind = "value" /\ ret' # ret)
            => (cpc = "recv" /\ chans[crx].rx = "taken" /\ ret'.id = cid)]_vars

\* C13 witness: a second get_response on a live entry whose Receiver was
\* taken has panicked.
C13_Witness ==
    /\ ret.op = "get_response"
    /\ ret.kind = "panic"
    /\ map[ret.id] # 0
    /\ chans[map[ret.id]].rx # "map"
    /\ chans[map[ret.id]].tx

\* C14: each registration (each channel made by write) returns at most one
\* value, the first frame sent to it. A value is returned only from a taken
\* Receiver and is the head of the buffer, and returning drops the Receiver;
\* a Receiver is taken only out of the entry, and a dropped one stays dropped
\* with nothing buffered; a frame enters the buffer only when it is empty, so
\* frames sent after the first never reach a waiter.
C14_OneValuePerRegistration ==
    [][/\ (cpc' = "idle" /\ ret'.kind = "value" /\ ret' # ret)
            => /\ chans[crx].rx = "taken"
               /\ ret'.val = Head(chans[crx].buf)
               /\ chans'[crx].rx = "dropped"
       /\ \A c \in 1..Len(chans) :
            /\ chans[c].rx = "dropped"
                    => (chans'[c].rx = "dropped" /\ chans'[c].buf = <<>>)
            /\ chans[c].rx = "taken" => chans'[c].rx # "map"
            /\ chans'[c].buf # chans[c].buf
                    => \/ chans[c].buf = <<>> /\ Len(chans'[c].buf) = 1
                       \/ chans'[c].buf = <<>> /\ chans'[c].rx = "dropped"]_vars

\* C14 witness: two response frames for id 1 were read under one
\* registration; get_response(1) returned one of them and the listener is
\* past the other.
C14_Witness ==
    /\ Len(chans) = 1
    /\ Cardinality({ln \in rdlog : ln.id = 1}) = 2
    /\ ret.op = "get_response" /\ ret.kind = "value" /\ ret.id = 1
    /\ lpc = "read"
    /\ wire = <<>>

\* C15: when write_all fails, write() returns the I/O error at once and
\* nothing is retried: the step that leaves write_all either puts the request
\* on the outbound stream and returns Ok, or leaves the stream as it is and
\* returns SocketError::Io; either way the call is over, and the stream only
\* ever grows by the request of a call that is in write_all.
C15_WriteFailureReturned ==
    [][/\ (cpc = "write_all" /\ cpc' # "write_all")
            => /\ cpc' = "idle"
               /\ ret'.op = "write" /\ ret'.id = cid
               /\ \/ outbound' = Append(outbound, cid) /\ ret'.kind = "ok"
                  \/ outbound' = outbound /\ ret'.kind = "io"
       /\ outbound' # outbound
            => (cpc = "write_all" /\ outbound' = Append(outbound, cid))]_vars

\* C15 witness: a write has failed with the I/O error and its bytes are not
\* on the stream.
C15_Witness ==
    /\ ret.op = "write" /\ ret.kind = "io"
    /\ cpc = "idle"
    /\ \A k \in 1..Len(outbound) : outbound[k] # ret.id

\* C16: writes are serialized and each gets its own slot. While a write is
\* in progress no other call starts and the outbound stream is left alone
\* until that write puts its own request on it, whole, or fails; the step
\* that starts a write starts from no call in progress and inserts a fresh
\* channel for its id, leaving the entries of all other ids as they are.
C16_WritesSerialized ==
    [][/\ cpc = "write_all"
            => \/ /\ cpc' = "write_all"
                  /\ cid' = cid
                  /\ ncalls' = ncalls
                  /\ outbound' = outbound
                  /\ map' = map
               \/ /\ cpc' = "idle"
                  /\ ncalls' = ncalls
                  /\ outbound' \in {outbound, Append(outbound, cid)}
                  /\ map' = map
       /\ (cpc' = "write_all" /\ ncalls' # ncalls)
            => /\ cpc = "idle"
               /\ Len(chans') = Len(chans) + 1
               /\ map'[cid'] = Len(chans')
               /\ chans'[map'[cid']] = NewChannel(cid')
               /\ \A id \in Ids \ {cid'} :
                    /\ map'[id] = map[id]
                    /\ map[id] # 0 => chans'[map[id]] = chans[map[id]]]_vars

\* C16 witness: two writes of different requests have completed one after
\* the other, both requests are on the stream and each id has its own slot.
C16_Witness ==
    /\ outbound = <<1, 2>>
    /\ cpc = "idle"
    /\ map[1] # 0 /\ map[2] # 0 /\ map[1] # map[2]
    /\ chans[map[1]].id = 1 /\ chans[map[2]].id = 2

\* C17: the subscriber observes end-of-stream only after the listener has
\* terminated and only after it has received every event the listener
\* enqueued, each once: at the end nothing is queued, and what was received
\* before it is exactly the events the peer sent, in order; no event is ever
\* received twice.
C17_EndOnlyAfterListenerAndEvents ==
    /\ Ended =>
        /\ lpc = "panicked"
        /\ evq = <<>>
        /\ Len(got) = nevents + 1
        /\ \A k \in 1..nevents : got[k].msg = EventData(k)
    /\ \A j, k \in 1..Len(got) : j # k => got[j] # got[k]

\* C17 witness: the subscriber received an event and then the end of the
\* sequence, the listener being gone.
C17_Witness ==
    Ended /\ Len(got) = 2 /\ got[1].msg = EventData(1) /\ lpc = "panicked"

\* C18: after the Socket is dropped the listener processes no further frame
\* and no slot is fulfilled.
C18_DropStopsListener ==
    [][cpc = "dropped"
        => /\ ~ListenerReads
           /\ \A c \in 1..Len(chans) : chans'[c].buf = chans[c].buf]_vars

\* C19: a successful connect() leaves an empty registry, an empty event
\* queue, the listening flag set and the one listener running on them; a
\* failed open returns the I/O error and no listener is ever spawned.
C19_ConnectState ==
    [][/\ (cpc = "unconnected" /\ cpc' # "unconnected")
            => \/ /\ cpc' = "idle"
                  /\ ret' = Ret("connect", NoId, "ok", BadLine)
                  /\ \A id \in Ids : map'[id] = 0
                  /\ chans' = <<>>
                  /\ ~poisoned'
                  /\ evq' = <<>>
                  /\ subOpen'
                  /\ listening'
                  /\ lpc = "unspawned" /\ lpc' = "read"
               \/ /\ cpc' = "failed"
                  /\ ret' = Ret("connect", NoId, "io", BadLine)
                  /\ lpc' = "unspawned"
       /\ cpc' \in {"unconnected", "failed"} => lpc' = "unspawned"
       /\ lpc' # lpc => (lpc = "unspawned" <=> cpc = "unconnected")]_vars

\* C19 witness: connect has just succeeded and the listener is waiting for
\* its first line.
C19_Witness ==
    /\ ret = Ret("connect", NoId, "ok", BadLine)
    /\ cpc = "idle"
    /\ lpc = "read"
    /\ listening
    /\ chans = <<>>

\* C20: what happens to a response frame depends on its id alone. Reading
\* one, the listener's next position, the channel it is about to send to and
\* the state of the registry lock are fixed by the id and the registry, and
\* the frame is carried whole; the send puts it in the slot unless the
\* Receiver is gone; and a get_response that finds it returns it as a value,
\* whether its payload reports success or an application error.
C20_RoutingIgnoresPayload ==
    [][/\ (ListenerReads /\ IsResponse(Head(wire)))
            => LET id == Head(wire).id IN
               IF poisoned
               THEN lpc' = "panicked" /\ lerr' = "lock" /\ chans' = chans
               ELSE IF map[id] = 0
               THEN lpc' = "panicked" /\ lerr' = "get" /\ chans' = chans
               ELSE /\ lpc' = "send"
                    /\ ltx' = map[id]
                    /\ lval' = Head(wire)
                    /\ lerr' = lerr
                    /\ poisoned' = poisoned
                    /\ chans' = chans
       /\ (lpc = "send" /\ lpc' # "send")
            => /\ lpc' = "read"
               /\ chans[ltx].rx # "dropped" => chans'[ltx].buf = <<lval>>
       /\ (cpc = "recv" /\ cpc' = "idle" /\ chans[crx].buf # <<>>
                /\ ret'.kind # "cancelled")
            => (ret'.kind = "value" /\ ret'.val = Head(chans[crx].buf))]_vars

\* C20 witness: a success response and an application-error response have
\* been delivered, each to the slot of its id.
C20_Witness ==
    /\ map[1] # 0 /\ map[2] # 0
    /\ \E p, q \in RespPayloads :
        /\ p # q
        /\ chans[map[1]].buf = <<Resp(1, p)>>
        /\ chans[map[2]].buf = <<Resp(2, q)>>

\* C22: when the subscriber end is closed and the listener has an event to
\* send, the listener does not terminate: it drops the event, leaves the event
\* queue as it is and goes on to the next line.
C22_ClosedQueueNotFatal ==
    [][(lpc = "evsend" /\ ~subOpen /\ lpc' # "evsend")
            => (lpc' = "read" /\ evq' = evq)]_vars

\* C23: a JSON frame with neither an id nor a type is discarded: the listener
\* goes on to the next line and the registry, the slots and the event queue
\* are unchanged.
C23_ShapelessFrameDiscarded ==
    [][(/\ ListenerReads
        /\ Head(wire).kind = "json"
        /\ Head(wire).id = NoId
        /\ Head(wire).type = "none")
            => /\ lpc' = "read"
               /\ map' = map
               /\ chans' = chans
               /\ evq' = evq]_vars

\* C24: a frame whose id is present but malformed never crashes the
\* listener: the frame is skipped and the listener goes on to the next line.
C24_MalformedIdNotFatal ==
    [][(ListenerReads /\ Head(wire).kind = "json" /\ Head(wire).id = BadId)
            => (lpc' = "read" /\ chans' = chans /\ evq' = evq)]_vars

\* C25: when read_line returns an error the listener leaves its loop: it is
\* not back at read_line for another read.
C25_ReadErrorStopsLoop ==
    [][(ListenerReads /\ Head(wire).kind = "ioerr") => lpc' = "stopped"]_vars

\* C26: once get_response(id) has returned the response value, the registry
\* has no entry for id.
C26_EntryRemovedOnDelivery ==
    [][(cpc = "recv" /\ cpc' = "idle" /\ ret'.kind = "value")
            => map'[cid] = 0]_vars

\* C27: when the response of an abandoned request (its Receiver dropped)
\* arrives, it is dropped unread, the listener goes on to the next line, and
\* the registry no longer has an entry for that id.
C27_AbandonedSlotFreed ==
    [][(lpc = "send" /\ chans[ltx].rx = "dropped" /\ lpc' # "send")
            => /\ lpc' = "read"
               /\ chans' = chans
               /\ map'[lval.id] = 0]_vars

\* The Receivers made for id that exist: still in a registry entry or held
\* by a get_response in progress.
LiveReceivers(id) ==
    {c \in 1..Len(chans) : chans[c].id = id /\ chans[c].rx # "dropped"}

\* C29: at most one live delivery slot per id. No two Receivers made for the
\* same id exist at the same time, and the one that exists belongs to the
\* entry the registry has for that id.
C29_OneLiveSlotPerId ==
    \A id \in Ids :
        /\ Cardinality(LiveReceivers(id)) <= 1
        /\ \A c \in LiveReceivers(id) : map[id] = c

\* C29 witness: an id has been used again; the Receiver of its first
\* registration is gone and the one of the second is held by get_response.
C29_Witness ==
    /\ Len(chans) >= 2
    /\ chans[1].id = chans[2].id
    /\ chans[1].rx = "dropped"
    /\ chans[2].rx = "taken"

\* C30: the event queue never holds more than 32 events that the subscriber
\* has not consumed.
C30_EventQueueBounded == Len(evq) <= EventQueueCap

\* C30 witness: the queue holds 32 events and the listener has a 33rd to send.
C30_Witness == Len(evq) = EventQueueCap /\ lpc = "evsend" /\ subOpen

\* C21: a full event queue does not stop the listener. When the listener
\* has an event to send, the queue holds 32 events, and the response a
\* waiting get_response(id) is waiting for is the next line of the stream,
\* that get_response returns the response, even if the subscriber never
\* consumes an event.
C21_FullQueueDoesNotBlockResponses ==
    \A id \in Ids :
        (/\ lpc = "evsend"
         /\ subOpen
         /\ Len(evq) = EventQueueCap
         /\ wire = <<Resp(id, "ok")>>
         /\ cpc = "recv"
         /\ cid = id
         /\ chans[crx].tx)
        ~> (cpc = "idle" /\ ret = Ret("get_response", id, "value", Resp(id, "ok")))

C31_BufferedResponseReturned ==
    [][/\ (/\ lpc = "send" /\ lpc' # "send"
           /\ chans[ltx].rx = "map" /\ chans[ltx].buf = <<>>)
            => chans'[ltx].buf = <<lval>>
       /\ \A id \in Ids :
            (/\ GetResponseCalled(id)
             /\ map[id] # 0
             /\ chans[map[id]].rx = "map"
             /\ chans[map[id]].buf # <<>>)
            => /\ cpc' = "recv"
               /\ crx' = map[id]
               /\ chans'[map[id]].buf = chans[map[id]].buf
       /\ (/\ cpc = "recv" /\ cpc' = "idle"
           /\ chans[crx].buf # <<>> /\ ret'.kind # "cancelled")
            => ret' = Ret("get_response", cid, "value", Head(chans[crx].buf))]_vars

\* C32: while the listener is at the send of a second response to a slot
\* that still holds the first one unread, and no get_response has taken that
\* slot's Receiver, the listener stays suspended there: it reads no further
\* line, and the slot stays full and open, so the send cannot complete.
C32_SecondResponseSuspendsListener ==
    [][(lpc = "send" /\ chans[ltx].buf # <<>> /\ chans[ltx].rx = "map")
            => /\ lpc' = "send"
               /\ ltx' = ltx
               /\ ~ListenerReads
               /\ chans'[ltx].buf = chans[ltx].buf
               /\ chans'[ltx].rx # "dropped"]_vars

\* C34: get_response(id) for an id with no registry entry returns the General
\* error at once, without suspending, and leaves the registry, the slots and
\* the event queue as they are.
C34_UnregisteredIdGeneralError ==
    [][\A id \in Ids :
        (GetResponseCalled(id) /\ map[id] = 0)
            => /\ cpc' = "idle"
               /\ ret' = Ret("get_response", id, "general", BadLine)
               /\ map' = map
               /\ chans' = chans
               /\ evq' = evq]_vars

\* C35: a failed write() is not rolled back. When write(id) returns the I/O
\* error the entry it inserted is in the registry with its Receiver untaken,
\* and a get_response(id) that follows suspends in recv() on that entry
\* instead of failing.
C35_FailedWriteKeepsEntry ==
    [][/\ (cpc = "write_all" /\ cpc' = "idle" /\ ret'.kind = "io")
            => /\ map'[cid] # 0
               /\ chans'[map'[cid]] = NewChannel(cid)
       /\ \A id \in Ids :
            (ret = Ret("write", id, "io", BadLine) /\ GetResponseCalled(id))
            => /\ cpc' = "recv"
               /\ crx' = map[id]
               /\ chans[crx'].buf = <<>>]_vars

\* C33: a panic with the registry lock held (the listener looking up an id
\* that has no entry, a get_response taking a Receiver already taken) poisons
\* the registry, and it stays poisoned. From then on every call that locks
\* the registry panics and changes nothing, no write registers an entry, and
\* the listener panics on every response frame it reads, delivering nothing.
C33_PoisonedRegistryFailsAll ==
    [][/\ (ListenerReads /\ IsResponse(Head(wire)) /\ ~poisoned
            /\ map[Head(wire).id] = 0) => poisoned'
       /\ \A id \in Ids :
            (/\ GetResponseCalled(id) /\ ~poisoned
             /\ map[id] # 0 /\ chans[map[id]].rx # "map") => poisoned'
       /\ poisoned
            => /\ poisoned'
               /\ map' = map
               /\ Len(chans') = Len(chans)
               /\ ncalls' = ncalls + 1
                    => /\ cpc' = "idle"
                       /\ ret'.kind = "panic"
                       /\ chans' = chans
               /\ (ListenerReads /\ IsResponse(Head(wire)))
                    => /\ lpc' = "panicked"
                       /\ chans' = chans]_vars

\* C33 witness: the listener has poisoned the registry by looking up an
\* unregistered id, and a write() called after that has panicked.
C33_Witness ==
    /\ poisoned
    /\ lerr = "get"
    /\ ret.op = "write"
    /\ ret.kind = "panic"

C38_OtherTypeDiscarded ==
    [][(/\ ListenerReads
        /\ Head(wire).kind = "json"
        /\ Head(wire).id = NoId
        /\ Head(wire).type \notin {"none", "IncomingMessage"})
            => /\ lpc' = "read"
               /\ UNCHANGED <<map, chans, poisoned, listening, outbound, evq,
                              subOpen, got, lerr, callerVars>>]_vars

\* C38 witness: the listener, having discarded one line, is back at the read
\* with a frame of another type and no id next on the wire.
C38_Witness ==
    /\ lpc = "read"
    /\ listening
    /\ nlines = 2
    /\ wire = <<Line("json", NoId, "other", "ok")>>
    /\ lerr = "none"
    /\ rdlog = {}
    /\ nevents = 0

====
